---------------------------- MODULE Spec2Model ----------------------------
(***************************************************************************)
(* State-machine model of the SearchablePosts list controller              *)
(* (src/unnamed/part_001): the search query, the revealed page window, the *)
(* loading flag, the closure values of the last committed render and the   *)
(* outstanding reveal timers.                                              *)
(*                                                                         *)
(* React state is modelled in two layers.  searchQuery, currentPage and    *)
(* isLoading are the hook states with every queued update applied in the   *)
(* order it was queued.  view is the snapshot of those states taken by     *)
(* the last committed render: it is what the closures loadMorePosts and    *)
(* onChange of that render read, and what is on screen.  An update queued  *)
(* outside a React event handler (the IntersectionObserver callback, the   *)
(* continuation after the await) is rendered by a later task (Render);     *)
(* the input's onChange is a discrete event and is rendered before the     *)
(* event returns.                                                          *)
(***************************************************************************)
EXTENDS Integers, Sequences, FiniteSets, TLC

\* ------------------------------------------------------------------ bounds
MaxPosts == 9
MaxQueryLen == 1
MaxTimers == 2
MaxPage == 4
MaxSlug == 4
MaxCopies == 5

\* ------------------------------------------------------- program constants
POSTS_PER_PAGE == 4

\* ----------------------------------------------------------------- strings
\* A query is a sequence of characters; " " stands for white space.
Letters == {"a"}
Alphabet == {" "} \cup Letters

RECURSIVE StringsUpTo(_)
StringsUpTo(n) ==
  IF n = 0 THEN {<<>>}
  ELSE LET shorter == StringsUpTo(n - 1)
       IN  shorter \cup {Append(s, c) : s \in {t \in shorter : Len(t) = n - 1}, c \in Alphabet}

Queries == StringsUpTo(MaxQueryLen)

IsWhiteSpace(c) == c = " "

RECURSIVE TrimStart(_)
TrimStart(s) ==
  IF s # <<>> /\ IsWhiteSpace(Head(s)) THEN TrimStart(Tail(s)) ELSE s

RECURSIVE TrimEnd(_)
TrimEnd(s) ==
  IF s # <<>> /\ IsWhiteSpace(s[Len(s)]) THEN TrimEnd(SubSeq(s, 1, Len(s) - 1)) ELSE s

\* String.prototype.trim
Trim(s) == TrimEnd(TrimStart(s))

Min(a, b) == IF a < b THEN a ELSE b
Max(a, b) == IF a > b THEN a ELSE b

\* Array.prototype.slice(begin, end) with its clamping of both indices.
Slice(s, begin, end) ==
  LET len == Len(s)
      from == IF begin < 0 THEN Max(len + begin, 0) ELSE Min(begin, len)
      to == IF end < 0 THEN Max(len + end, 0) ELSE Min(end, len)
  IN  IF from < to THEN SubSeq(s, from + 1, to) ELSE <<>>

Reverse(s) == [i \in 1..Len(s) |-> s[Len(s) + 1 - i]]

\* Variant: splice(begin, end - begin) takes the entries out of the receiver.
SliceReceiverSpliced(s, begin, end) ==
  LET cut == Slice(s, begin, end)
  IN  SubSeq(s, Len(cut) + 1, Len(s))

\* The receiver of Array.prototype.slice after the call: slice copies.
SliceReceiver(s, begin, end) == s

\* A post of the generated collection: _meta.path, title, description.
Post(i) == [path |-> i, title |-> <<"title", i>>, description |-> <<"description", i>>]

\* Nothing built or served yet.
BlogInit == [params |-> <<>>, built |-> FALSE, slug |-> 0,
             metadata |-> [title |-> <<>>], page |-> [status |-> "none"]]

\* const [copied, setCopied] = useState(false); no copy made yet.
\* shiki: the block has the copy button and preRef is attached.  writes are
\* the copies waiting for the clipboard, timers the outstanding
\* setTimeout(..., 2000) calls, oldest first, each named by its copy.
CodeInit == [shiki |-> TRUE, copied |-> FALSE, writes |-> <<>>, timers |-> <<>>,
             clicks |-> 0, latest |-> 0]

VARIABLES
  posts,        \* the collection handed to the component (props.posts)
  fuseHits,     \* the answers of the search index, fixed with the collection
  searchQuery,  \* useState("")
  currentPage,  \* useState(1)
  isLoading,    \* useState(false)
  view,         \* hook states as read by the last committed render
  timers,       \* outstanding setTimeout(resolve, 2000) calls, oldest first
  mounted,      \* the component instance is mounted
  burst,        \* history: the reveal that began with no timer outstanding
  run,          \* history: reveals completed since mount, until the first input
  last,         \* history: the last event handled (page: the page an input found)
  blog,         \* the blog route: the static params and the last slug served
  code          \* one CodeBlock: copied, clipboard writes and reset timers

vars == <<posts, fuseHits, searchQuery, currentPage, isLoading, view, timers,
          mounted, burst, run, last, blog, code>>

\* ------------------------------------------------------------ derived data
\* fuse.search(query): the index is a library outside this repository.  It
\* is modelled by its answers: a ranking of distinct posts of the collection
\* it was built over, fixed per query for the lifetime of the index.  The
\* answer is keyed by the first letter of the query; a query without a
\* letter finds nothing.
FuseKey(query) ==
  LET at == {i \in 1..Len(query) : query[i] \in Letters}
  IN  IF at = {} THEN " " ELSE query[CHOOSE i \in at : \A j \in at : i <= j]

FuseSearch(query) ==
  IF FuseKey(query) = " " THEN <<>>
  ELSE Reverse(SubSeq(posts, 1, fuseHits[FuseKey(query)]))

\* Variant: the blank test without trim().
FilteredPostsUntrimmed(query) ==
  IF query = <<>> THEN posts ELSE FuseSearch(query)

\* const filteredPosts = useMemo(...)
FilteredPosts(query) ==
  IF Trim(query) = <<>> THEN posts ELSE FuseSearch(query)

\* Variant: the window ends one entry early.
DisplayedPostsShort(query, page) ==
  LET endIndex == page * POSTS_PER_PAGE
  IN  Slice(FilteredPosts(query), 0, endIndex - 1)

\* const displayedPosts = useMemo(...)
DisplayedPosts(query, page) ==
  LET endIndex == page * POSTS_PER_PAGE
  IN  Slice(FilteredPosts(query), 0, endIndex)

\* Variant: <= in place of <.
HasMorePostsLoose(query, page) ==
  Len(DisplayedPosts(query, page)) <= Len(FilteredPosts(query))

\* const hasMorePosts = displayedPosts.length < filteredPosts.length
HasMorePosts(query, page) ==
  Len(DisplayedPosts(query, page)) < Len(FilteredPosts(query))

\* props.posts after a render over (query, page).  For a blank query
\* filteredPosts is the posts array itself, not a copy, so the slice of
\* displayedPosts has the collection as its receiver; a search result is a
\* fresh array.
PostsAfterRender(query, page) ==
  IF Trim(query) = <<>>
    THEN SliceReceiver(posts, 0, page * POSTS_PER_PAGE)
    ELSE posts

\* The values the closures of the committed render hold.
filteredPosts == FilteredPosts(view.searchQuery)
displayedPosts == DisplayedPosts(view.searchQuery, view.currentPage)
\* Variant: the closure's hasMorePosts is true at the end of the list too.
hasMorePostsLoose == Len(displayedPosts) <= Len(filteredPosts)

\* Variant: the window is compared with the whole collection.
hasMorePostsOfAll == Len(displayedPosts) < Len(posts)

hasMorePosts == HasMorePosts(view.searchQuery, view.currentPage)

\* ------------------------------------------------------- rendered output
\* What the committed render puts on screen, branch by branch of the JSX.

\* Variant: the branch tests searchQuery without trim().
NoResultsViewUntrimmed ==
  [shown |-> Len(filteredPosts) = 0 /\ view.searchQuery # <<>>,
   text |-> <<"No articles found for ", view.searchQuery, ". Try different keywords.">>]

\* {filteredPosts.length === 0 && searchQuery.trim() && (...)}
NoResultsView ==
  [shown |-> Len(filteredPosts) = 0 /\ Trim(view.searchQuery) # <<>>,
   text |-> <<"No articles found for ", view.searchQuery, ". Try different keywords.">>]

\* {isLoading && <LoadingSpinner />}
SpinnerView == [shown |-> view.isLoading]

\* Variant: the sentinel stays mounted while loading.
SentinelViewAlways ==
  [shown |-> hasMorePosts,
   count |-> Len(displayedPosts), total |-> Len(filteredPosts)]

\* {hasMorePosts && !isLoading && (...)}: the observed element and
\* "{displayedPosts.length} of {filteredPosts.length} articles".
SentinelView ==
  [shown |-> hasMorePosts /\ ~view.isLoading,
   count |-> Len(displayedPosts), total |-> Len(filteredPosts)]

\* Variant: the end message does not test that a post is shown.
EndMessageViewNoCount ==
  [shown |-> ~hasMorePosts /\ Trim(view.searchQuery) = <<>>,
   total |-> Len(filteredPosts)]

\* Variant: the end message does not test the query.
EndMessageViewAnyQuery ==
  [shown |-> ~hasMorePosts /\ Len(displayedPosts) > 0,
   total |-> Len(filteredPosts)]

\* {!hasMorePosts && displayedPosts.length > 0 && !searchQuery.trim() && (...)}
EndMessageView ==
  [shown |-> ~hasMorePosts /\ Len(displayedPosts) > 0 /\ Trim(view.searchQuery) = <<>>,
   total |-> Len(filteredPosts)]

\* Variant: the reset is missing.
ResetPageNever(prevQuery, query, page) == page

\* Variant: the reset goes to a zero-based first page.
ResetPageToZero(prevQuery, query, page) ==
  IF query # prevQuery THEN 0 ELSE page

\* useMemo(() => { setCurrentPage(1); }, [searchQuery]): runs during the
\* render whose searchQuery differs from the previous render's; the state
\* update made while rendering restarts the render before it is committed.
ResetPage(prevQuery, query, page) ==
  IF query # prevQuery THEN 1 ELSE page

\* One committed render of SearchablePosts over the hook states (q, p, l).
Rendered(q, p, l) ==
  [searchQuery |-> q, currentPage |-> ResetPage(view.searchQuery, q, p), isLoading |-> l]

Event(op, inView, page) == [op |-> op, inView |-> inView, page |-> page]

\* ------------------------------------------------------------------- Init
\* The first render of SearchablePosts.
Mounted ==
  /\ searchQuery = <<>>
  /\ currentPage = 1
  /\ isLoading = FALSE
  /\ view = [searchQuery |-> <<>>, currentPage |-> 1, isLoading |-> FALSE]
  /\ timers = <<>>
  /\ mounted = TRUE
  /\ burst = [base |-> 1, triggers |-> 0, clean |-> TRUE]
  /\ run = [pristine |-> TRUE, completed |-> 0]
  /\ last = Event("mount", FALSE, 0)

Init ==
  /\ \E n \in 0..MaxPosts :
       /\ posts = [i \in 1..n |-> Post(i)]
       /\ fuseHits \in [Letters -> 0..n]
  /\ Mounted
  /\ blog = BlogInit
  /\ code = CodeInit

\* ---------------------------------------------------------------- actions
\* loadMorePosts up to its await: the guard reads the closure of the
\* committed render; setIsLoading(true) is queued and the timer started.
LoadGuard == ~(view.isLoading \/ ~hasMorePosts)

LoadMorePosts ==
  IF LoadGuard
    THEN /\ Len(timers) < MaxTimers
         /\ currentPage + Len(timers) < MaxPage
         /\ isLoading' = TRUE
         /\ timers' = Append(timers, [page |-> currentPage, seen |-> view.currentPage,
                                     clean |-> TRUE])
    ELSE UNCHANGED <<isLoading, timers>>

\* Variant: the test of inView is inverted.
ObserverGuardHidden(inView) == ~inView /\ hasMorePosts /\ ~view.isLoading

\* Variant: the callback does not look at inView.
ObserverGuardAnySignal(inView) == hasMorePosts /\ ~view.isLoading

\* useInView({ onChange }): the observer reports the sentinel's visibility.
ObserverGuard(inView) == inView /\ hasMorePosts /\ ~view.isLoading

OnChange(inView) ==
  /\ mounted
  /\ IF ObserverGuard(inView)
       THEN LoadMorePosts
       ELSE UNCHANGED <<isLoading, timers>>
  /\ burst' = IF ~inView THEN burst
             ELSE IF timers # <<>>
               THEN [burst EXCEPT !.triggers = Min(burst.triggers + 1, 2)]
             ELSE IF timers' # <<>>
               THEN [base |-> currentPage, triggers |-> 1, clean |-> TRUE]
             ELSE burst
  /\ last' = Event("onChange", inView, 0)
  /\ UNCHANGED <<blog, code, posts, fuseHits, searchQuery, currentPage, view, mounted, run>>

\* Variant: the update reaches the state of an instance that is gone.
SetStateDetached(current, next) == next

\* A setter of useState: React drops the update of an unmounted component.
SetState(current, next) == IF mounted THEN next ELSE current

\* Variant: the page skips one.
CompletedPageSkip(prev, started) == prev + 2

\* Variant: currentPage + 1 over the page the closure captured.
CompletedPageStale(prev, started) == started + 1

\* setCurrentPage((prev) => prev + 1)
CompletedPage(prev, started) == prev + 1

\* Variant: setIsLoading(false) is missing.
TimerDoneKeepsLoading ==
  /\ timers # <<>>
  /\ currentPage' = SetState(currentPage, CompletedPage(currentPage, Head(timers).page))
  /\ isLoading' = isLoading
  /\ timers' = Tail(timers)
  /\ run' = IF mounted /\ run.pristine
             THEN [run EXCEPT !.completed = run.completed + 1] ELSE run
  /\ last' = Event("timer", FALSE, 0)
  /\ UNCHANGED <<blog, code, posts, fuseHits, searchQuery, view, mounted, burst>>

\* Variant: a completion whose query has changed returns before its updates.
TimerDoneDropsStale ==
  /\ timers # <<>>
  /\ currentPage' = IF Head(timers).clean
                      THEN SetState(currentPage, CompletedPage(currentPage, Head(timers).page))
                      ELSE currentPage
  /\ isLoading' = IF Head(timers).clean THEN SetState(isLoading, FALSE) ELSE isLoading
  /\ timers' = Tail(timers)
  /\ run' = IF mounted /\ run.pristine
             THEN [run EXCEPT !.completed = run.completed + 1] ELSE run
  /\ last' = Event("timer", FALSE, 0)
  /\ UNCHANGED <<blog, code, posts, fuseHits, searchQuery, view, mounted, burst>>

\* loadMorePosts after its await: the oldest timer fires and the promise
\* resolves; both updates are queued by the same continuation.  Nothing
\* clears the timer, so it also fires after the component is unmounted.
TimerDone ==
  /\ timers # <<>>
  /\ currentPage' = SetState(currentPage, CompletedPage(currentPage, Head(timers).page))
  /\ isLoading' = SetState(isLoading, FALSE)
  /\ timers' = Tail(timers)
  /\ run' = IF mounted /\ run.pristine
             THEN [run EXCEPT !.completed = run.completed + 1] ELSE run
  /\ last' = Event("timer", FALSE, 0)
  /\ UNCHANGED <<blog, code, posts, fuseHits, searchQuery, view, mounted, burst>>

\* React renders the updates queued by OnChange and TimerDone.
Render ==
  /\ mounted
  /\ view # [searchQuery |-> searchQuery, currentPage |-> currentPage, isLoading |-> isLoading]
  /\ view' = Rendered(searchQuery, currentPage, isLoading)
  /\ currentPage' = view'.currentPage
  /\ last' = Event("render", FALSE, 0)
  /\ posts' = PostsAfterRender(view'.searchQuery, view'.currentPage)
  /\ UNCHANGED <<blog, code, fuseHits, searchQuery, isLoading, timers, mounted, burst, run>>

\* Variant: a new query also ends the loading state.
InputChangeStopsLoading(value) ==
  /\ mounted
  /\ value # searchQuery
  /\ searchQuery' = value
  /\ isLoading' = FALSE
  /\ view' = Rendered(value, currentPage, FALSE)
  /\ currentPage' = view'.currentPage
  /\ timers' = [i \in 1..Len(timers) |-> [timers[i] EXCEPT !.clean = FALSE]]
  /\ burst' = [burst EXCEPT !.clean = FALSE]
  /\ run' = [pristine |-> FALSE, completed |-> 0]
  /\ last' = Event("input", FALSE, currentPage)
  /\ posts' = PostsAfterRender(view'.searchQuery, view'.currentPage)
  /\ UNCHANGED <<blog, code, fuseHits, mounted>>

\* Input onChange: setSearchQuery(e.target.value), rendered with every
\* queued update before the event returns.  Setting the state to the value
\* it already has is dropped by React.
InputChange(value) ==
  /\ mounted
  /\ value # searchQuery
  /\ searchQuery' = value
  /\ view' = Rendered(value, currentPage, isLoading)
  /\ currentPage' = view'.currentPage
  /\ timers' = [i \in 1..Len(timers) |-> [timers[i] EXCEPT !.clean = FALSE]]
  /\ burst' = [burst EXCEPT !.clean = FALSE]
  /\ run' = [pristine |-> FALSE, completed |-> 0]
  /\ last' = Event("input", FALSE, currentPage)
  /\ posts' = PostsAfterRender(view'.searchQuery, view'.currentPage)
  /\ UNCHANGED <<blog, code, fuseHits, isLoading, mounted>>

\* The page that shows the list is left: React unmounts the component, the
\* observer is disconnected and the input is gone.  The component has no
\* cleanup, so outstanding timers stay.
Unmount ==
  /\ mounted
  /\ mounted' = FALSE
  /\ last' = Event("unmount", FALSE, 0)
  /\ UNCHANGED <<blog, code, posts, fuseHits, searchQuery, currentPage, isLoading, view,
                 timers, burst, run>>

Next ==
  \/ \E inView \in BOOLEAN : OnChange(inView)
  \/ TimerDone
  \/ Render
  \/ \E value \in Queries : InputChange(value)

\* The life of one mounted instance.
Spec == Init /\ [][Next]_vars

NextUnmount ==
  \/ Next
  \/ Unmount

\* The same instance with its teardown.
SpecUnmount == Init /\ [][NextUnmount]_vars

\* A timer that was started fires: setTimeout(resolve, 2000) runs its
\* callback once the delay is over and the event loop is free.
SpecTimerFair == Spec /\ WF_vars(TimerDone)

\* The reader stays at the end of the list: React commits the render of
\* every queued update, and whenever the sentinel is on screen with no
\* timer outstanding the observer reports it visible.
SpecLive ==
  /\ Spec
  /\ WF_vars(TimerDone)
  /\ WF_vars(Render)
  /\ WF_vars(timers = <<>> /\ SentinelView.shown /\ OnChange(TRUE))

\* ------------------------------------------------------------- blog route
\* app/blog/[slug]/page.tsx over allPosts (posts).  The collection is
\* generated from the files of one directory, so paths are distinct; the
\* order is the generator's.
Slugs == 1..MaxSlug

Collections ==
  {s \in UNION {[1..n -> Slugs] : n \in 0..MaxSlug} :
     \A i, j \in 1..Len(s) : i # j => s[i] # s[j]}

Undefined == [undefined |-> TRUE]

\* Variant: the slug is taken for a position in the collection.
FindPostByIndex(slug) ==
  IF slug \in 1..Len(posts) THEN posts[slug] ELSE Undefined

\* allPosts.find((post) => post._meta.path === slug): the first post that
\* passes the test, undefined when none does.
FindPost(slug) ==
  LET at == {i \in 1..Len(posts) : posts[i].path = slug}
  IN  IF at = {} THEN Undefined ELSE posts[CHOOSE i \in at : \A j \in at : i <= j]

\* generateStaticParams()
GenerateStaticParams == [i \in 1..Len(posts) |-> [slug |-> posts[i].path]]

\* generateMetadata({ params })
GenerateMetadata(slug) ==
  LET post == FindPost(slug)
  IN  IF post = Undefined
        THEN [title |-> <<"Post not found">>]
        ELSE [title |-> post.title, description |-> post.description]

\* The article rendered from a post.
Article(post) ==
  [status |-> "article", title |-> post.title, description |-> post.description]

\* Variant: the page renders without the guard; reading a field of
\* undefined throws a TypeError.
BlogPostUnguarded(slug) ==
  LET post == FindPost(slug)
  IN  IF post = Undefined THEN [status |-> "TypeError"] ELSE Article(post)

\* BlogPost({ params }): notFound() throws, nothing after it runs.
BlogPost(slug) ==
  LET post == FindPost(slug)
  IN  IF post = Undefined THEN [status |-> "notFound"] ELSE Article(post)

InitBlog ==
  /\ \E paths \in Collections : posts = [i \in 1..Len(paths) |-> Post(paths[i])]
  /\ fuseHits = [c \in Letters |-> 0]
  /\ Mounted
  /\ blog = BlogInit
  /\ code = CodeInit

\* The build asks the route for its static params.
Build ==
  /\ ~blog.built
  /\ blog' = [blog EXCEPT !.built = TRUE, !.params = GenerateStaticParams]
  /\ UNCHANGED <<code, posts, fuseHits, searchQuery, currentPage, isLoading, view,
                 timers, mounted, burst, run, last>>

\* A request for /blog/<slug>: the metadata and the page of that slug.
Request(slug) ==
  /\ blog' = [blog EXCEPT !.slug = slug,
                          !.metadata = GenerateMetadata(slug),
                          !.page = BlogPost(slug)]
  /\ UNCHANGED <<code, posts, fuseHits, searchQuery, currentPage, isLoading, view,
                 timers, mounted, burst, run, last>>

NextBlog ==
  \/ Build
  \/ \E slug \in 1..(MaxSlug + 1) : Request(slug)

SpecBlog == InitBlog /\ [][NextBlog]_vars

\* -------------------------------------------------------------- CodeBlock
\* components/ui/code-block.tsx: one CodeBlock of a rendered post.
InitCode ==
  /\ posts = <<>>
  /\ fuseHits = [c \in Letters |-> 0]
  /\ Mounted
  /\ blog = BlogInit
  /\ \E shiki \in BOOLEAN : code = [CodeInit EXCEPT !.shiki = shiki]

\* handleCopy up to its await: the button exists for shiki blocks only, and
\* preRef.current is set there; the text goes to the clipboard.
HandleCopy ==
  /\ code.shiki
  /\ code.clicks < MaxCopies
  /\ code' = [code EXCEPT !.clicks = code.clicks + 1,
                          !.writes = Append(code.writes, code.clicks + 1)]
  /\ UNCHANGED <<blog, posts, fuseHits, searchQuery, currentPage, isLoading, view,
                 timers, mounted, burst, run, last>>

\* handleCopy after its await: setCopied(true) and a timer of its own that
\* will run setCopied(false).  No earlier timer is cleared.
WriteTextResolved ==
  /\ code.writes # <<>>
  /\ code' = [code EXCEPT !.writes = Tail(code.writes),
                          !.copied = TRUE,
                          !.timers = Append(code.timers, Head(code.writes)),
                          !.latest = Head(code.writes)]
  /\ UNCHANGED <<blog, posts, fuseHits, searchQuery, currentPage, isLoading, view,
                 timers, mounted, burst, run, last>>

\* The clipboard refuses: the catch logs the error and changes nothing.
WriteTextRejected ==
  /\ code.writes # <<>>
  /\ code' = [code EXCEPT !.writes = Tail(code.writes)]
  /\ UNCHANGED <<blog, posts, fuseHits, searchQuery, currentPage, isLoading, view,
                 timers, mounted, burst, run, last>>

\* The oldest timer fires: () => setCopied(false).
CopyTimerDone ==
  /\ code.timers # <<>>
  /\ code' = [code EXCEPT !.timers = Tail(code.timers), !.copied = FALSE]
  /\ UNCHANGED <<blog, posts, fuseHits, searchQuery, currentPage, isLoading, view,
                 timers, mounted, burst, run, last>>

NextCode ==
  \/ HandleCopy
  \/ WriteTextResolved
  \/ WriteTextRejected
  \/ CopyTimerDone

SpecCode == InitCode /\ [][NextCode]_vars

TypeOK ==
  /\ searchQuery \in Queries
  /\ currentPage \in 1..(MaxPage + MaxTimers)
  /\ isLoading \in BOOLEAN
  /\ Len(timers) <= MaxTimers

\* ------------------------------------------------------------- properties
IsBlank(query) == \A i \in 1..Len(query) : IsWhiteSpace(query[i])

Prefix(s, n) == [i \in 1..Min(n, Len(s)) |-> s[i]]

\* C1: at most one reveal timer is outstanding in every reachable state; a
\* proximity signal during a pending reveal starts no second timer.
C1_AtMostOneTimer == Len(timers) <= 1

\* C2: when the reveal was triggered twice while the first reveal was
\* pending, and no query change intervened, then once no reveal is pending
\* any more page is the page the reveal started from plus exactly 1.
C2_DoubleTriggerOneIncrement ==
  (timers = <<>> /\ burst.triggers = 2 /\ burst.clean)
    => currentPage = burst.base + 1

\* C3: every change of query to a different string sets page to 1 in the
\* same step, the committed view of that step shows the new query with page
\* 1, and its visible list is the first page-width entries (at most) of the
\* new matched set; no view ever shows a query other than the current one.
C3_QueryChangeResetsPage ==
  /\ [](view.searchQuery = searchQuery)
  /\ [][searchQuery' # searchQuery =>
          /\ currentPage' = 1
          /\ view'.searchQuery = searchQuery'
          /\ view'.currentPage = 1
          /\ DisplayedPosts(view'.searchQuery, view'.currentPage)
               = Prefix(FilteredPosts(searchQuery'), 4)]_vars

C3_Witness ==
  /\ last.op = "input"
  /\ last.page >= 2
  /\ currentPage = 1
  /\ view.currentPage = 1

C5_PageFixedUntilDelayEnds ==
  /\ [](\A i \in 1..Len(timers) : timers[i].clean => currentPage = timers[i].page)
  /\ [][(timers # <<>> /\ Len(timers') < Len(timers) /\ Head(timers).clean) =>
          /\ currentPage' = Head(timers).page + 1
          /\ isLoading' = FALSE]_vars

WindowOK(query, page) ==
  LET matched == FilteredPosts(query)
      visible == DisplayedPosts(query, page)
  IN  /\ visible = Prefix(matched, page * 4)
      /\ Len(visible) <= Len(matched)
      /\ Len(visible) <= page * POSTS_PER_PAGE
      /\ HasMorePosts(query, page) <=> (page * 4 < Len(matched))

C7_VisibleIsPrefix ==
  /\ WindowOK(view.searchQuery, view.currentPage)
  /\ WindowOK(searchQuery, currentPage)
  /\ hasMorePosts <=> (view.currentPage * 4 < Len(filteredPosts))

C7_Witness ==
  /\ view.currentPage = 2
  /\ Len(filteredPosts) > 8
  /\ Len(displayedPosts) = 8
  /\ hasMorePosts

\* C8: for every query that is empty or all white space the matched set is
\* the collection itself, same elements in the same order.
C8_BlankQueryMatchesAll ==
  /\ \A query \in Queries : IsBlank(query) => FilteredPosts(query) = posts
  /\ IsBlank(view.searchQuery) => filteredPosts = posts

C8_Witness ==
  /\ view.searchQuery # <<>>
  /\ IsBlank(view.searchQuery)
  /\ Len(posts) > POSTS_PER_PAGE
  /\ filteredPosts = posts

\* C9: with an empty collection the matched set is empty for every query,
\* visible is empty and hasMore is false.
C9_EmptyCollection ==
  posts = <<>> =>
    /\ \A query \in Queries :
         /\ FilteredPosts(query) = <<>>
         /\ \A page \in 1..MaxPage :
              /\ DisplayedPosts(query, page) = <<>>
              /\ ~HasMorePosts(query, page)
    /\ displayedPosts = <<>>
    /\ ~hasMorePosts

C9_Witness ==
  /\ posts = <<>>
  /\ ~IsBlank(view.searchQuery)
  /\ last.op = "onChange"
  /\ last.inView

\* C11: the no-results state is on screen exactly when matched is empty and
\* the query is not blank, its text carries the query as typed, and it is
\* never on screen for an empty or white-space-only query.
C11_NoResultsExactly ==
  /\ NoResultsView.shown <=> (filteredPosts = <<>> /\ ~IsBlank(view.searchQuery))
  /\ NoResultsView.shown =>
       /\ NoResultsView.text[2] = searchQuery
       /\ Len(FilteredPosts(searchQuery)) = 0
  /\ IsBlank(view.searchQuery) => ~NoResultsView.shown

C11_Witness ==
  /\ NoResultsView.shown
  /\ posts # <<>>
  /\ last.op = "input"

C13_EndMessageExactly ==
  /\ EndMessageView.shown <=>
       /\ ~(view.currentPage * 4 < Len(filteredPosts))
       /\ Len(displayedPosts) > 0
       /\ IsBlank(view.searchQuery)
  /\ EndMessageView.shown =>
       /\ EndMessageView.total = Len(posts)
       /\ ~SentinelView.shown
       /\ IsBlank(view.searchQuery)

C13_Witness ==
  /\ EndMessageView.shown
  /\ view.currentPage = 3
  /\ EndMessageView.total = 9

\* C14: with a blank query that never changed, after k completed reveals
\* visible.length = min(4 * (k + 1), N); for N = 6 the first view shows 4
\* posts, hasMore and the counter 4 of 6, and after one completed reveal
\* page = 2, all 6 posts are visible, hasMore is false and the end-of-list
\* message is on screen.
C14_RevealedAfterK ==
  /\ run.pristine =>
       Len(DisplayedPosts(searchQuery, currentPage))
         = Min(4 * (run.completed + 1), Len(posts))
  /\ (run.pristine /\ view.currentPage = currentPage) =>
       Len(displayedPosts) = Min(4 * (run.completed + 1), Len(posts))
  /\ (Len(posts) = 6 /\ run.pristine /\ run.completed = 0) =>
       /\ Len(displayedPosts) = 4
       /\ hasMorePosts
       /\ ~view.isLoading => SentinelView = [shown |-> TRUE, count |-> 4, total |-> 6]
  /\ (Len(posts) = 6 /\ run.pristine /\ run.completed = 1
        /\ view.currentPage = currentPage) =>
       /\ currentPage = 2
       /\ Len(displayedPosts) = 6
       /\ ~hasMorePosts
       /\ EndMessageView = [shown |-> TRUE, total |-> 6]

C14_Witness ==
  /\ Len(posts) = 6
  /\ run.pristine
  /\ run.completed = 1
  /\ view.currentPage = 2
  /\ timers = <<>>
  /\ EndMessageView.shown

\* C15: the controller starts with query "", page 1 and isLoading false;
\* page is always an integer >= 1; page changes only to 1 in a step that
\* changes the query, or by +1 in a step that completes a reveal.
C15_PageLifecycle ==
  /\ (searchQuery = <<>> /\ currentPage = 1 /\ isLoading = FALSE)
  /\ [](currentPage \in Nat /\ currentPage >= 1
          /\ view.currentPage \in Nat /\ view.currentPage >= 1)
  /\ [][currentPage' # currentPage =>
          \/ (searchQuery' # searchQuery /\ currentPage' = 1)
          \/ (searchQuery' = searchQuery /\ Len(timers') = Len(timers) - 1
                /\ currentPage' = currentPage + 1)]_vars

C15_Witness ==
  /\ last.op = "timer"
  /\ ~run.pristine
  /\ currentPage = 2
  /\ searchQuery = <<>>

\* C16: isLoading is true only while a reveal timer is outstanding, and
\* with no reveal timer outstanding isLoading is false.
C16_LoadingOnlyInFlight ==
  /\ isLoading => timers # <<>>
  /\ timers = <<>> => ~isLoading

C16_Witness ==
  /\ last.op = "timer"
  /\ timers = <<>>
  /\ ~isLoading
  /\ view.isLoading

\* C17: while a reveal timer is outstanding the input accepts every new
\* query and the timer can still fire; a query change removes no timer and
\* sets page to 1; a completion adds 1 to the page current at that moment
\* and clears isLoading; so a completion right after a query change leaves
\* page = 2 and a query change right after a completion leaves page = 1.
C17_QueryChangeKeepsTimer ==
  /\ [](timers # <<>> =>
          /\ ENABLED TimerDone
          /\ \A value \in Queries \ {searchQuery} : ENABLED InputChange(value))
  /\ [][/\ searchQuery' # searchQuery =>
             (Len(timers') = Len(timers) /\ currentPage' = 1)
        /\ Len(timers') < Len(timers) =>
             (currentPage' = currentPage + 1 /\ isLoading' = FALSE)
        /\ (last.op = "input" /\ Len(timers') < Len(timers)) => currentPage' = 2
        /\ (last.op = "timer" /\ searchQuery' # searchQuery) =>
             (currentPage' = 1 /\ view'.currentPage = 1)]_vars

C17_Witness ==
  /\ last.op = "timer"
  /\ burst.triggers = 1
  /\ ~burst.clean
  /\ burst.base = 2
  /\ currentPage = 2
  /\ ~isLoading
  /\ timers = <<>>

\* C18: the completion of a reveal that was pending when the query changed
\* leaves the visible list of the new query as it was.
C18_StaleCompletionIgnored ==
  [][(timers # <<>> /\ Len(timers') < Len(timers) /\ ~Head(timers).clean) =>
       DisplayedPosts(searchQuery', currentPage')
         = DisplayedPosts(searchQuery, currentPage)]_vars

\* C19: once the instance is unmounted no step changes its query, page or
\* isLoading, whatever timers were outstanding at the teardown.
C19_NoUpdateAfterUnmount ==
  [][~mounted => UNCHANGED <<searchQuery, currentPage, isLoading, view>>]_vars

C19_Witness ==
  /\ ~mounted
  /\ last.op = "timer"
  /\ isLoading
  /\ timers = <<>>

\* C20: a step that changes the query leaves isLoading as it was and the
\* number of outstanding timers as it was; a step that starts or completes
\* a reveal leaves the query as it was.
C20_QueryAndRevealFrames ==
  [][/\ searchQuery' # searchQuery =>
          (isLoading' = isLoading /\ Len(timers') = Len(timers))
     /\ (Len(timers') # Len(timers) \/ isLoading' # isLoading) =>
          (searchQuery' = searchQuery /\ view'.searchQuery = view.searchQuery)]_vars

C20_Witness ==
  /\ last.op = "input"
  /\ isLoading
  /\ view.isLoading
  /\ Len(timers) = 1
  /\ currentPage = 1


\* C21: no operation of the list controller changes the post collection: its
\* elements, their fields and their order are the same after every step, and
\* the matched set of every query is the same after every step, whatever
\* happens to the page or to isLoading.
C21_CollectionUntouched ==
  [][/\ posts' = posts
     /\ fuseHits' = fuseHits
     /\ \A q \in Queries : FilteredPosts(q)' = FilteredPosts(q)]_vars

\* A render of the second page of the whole collection, whose slice has the
\* collection itself as receiver.
C21_Witness ==
  /\ last.op = "render"
  /\ IsBlank(view.searchQuery)
  /\ view.currentPage = 2
  /\ Len(posts) = MaxPosts
  /\ \A i \in 1..Len(posts) : posts[i] = Post(i)

\* C22: generateStaticParams returns exactly one slug per post of the
\* collection, equal to the post's path and in the collection's order; for
\* every such slug generateMetadata returns that post's own title and
\* description, and BlogPost renders that post without calling notFound().
C22_StaticSlugsResolve ==
  /\ blog.built =>
       /\ Len(blog.params) = Len(posts)
       /\ \A i \in 1..Len(posts) : blog.params[i] = [slug |-> posts[i].path]
  /\ \A i \in 1..Len(posts) :
       blog.slug = GenerateStaticParams[i].slug =>
         /\ blog.page = [status |-> "article", title |-> posts[i].title,
                         description |-> posts[i].description]
         /\ blog.metadata = [title |-> posts[i].title,
                             description |-> posts[i].description]

\* The slug of the second post is served after the build, and it is not the
\* post's position.
C22_Witness ==
  /\ blog.built
  /\ Len(posts) = 3
  /\ posts[2].path = 1
  /\ blog.slug = blog.params[2].slug
  /\ blog.page.status = "article"

\* C29: for a slug that matches no post, BlogPost calls notFound() and
\* renders no article, and generateMetadata returns the title "Post not
\* found" and no description; no field of the missing post is read.
C29_UnknownSlug ==
  (blog.slug # 0 /\ \A i \in 1..Len(posts) : posts[i].path # blog.slug) =>
    /\ blog.page = [status |-> "notFound"]
    /\ blog.metadata = [title |-> <<"Post not found">>]

\* A slug between the paths of two posts is requested.
C29_Witness ==
  /\ Len(posts) = 2
  /\ posts[1].path = 3
  /\ posts[2].path = 1
  /\ blog.slug = 2
  /\ blog.page.status = "notFound"

\* C23: every reveal that starts eventually completes: from every state
\* with isLoading = true a state with isLoading = false is reached, given
\* that a started timer fires.
C23_RevealCompletes == isLoading ~> ~isLoading

\* A reveal that was triggered twice and saw its query change has completed.
C23_Witness ==
  /\ last.op = "timer"
  /\ ~isLoading
  /\ timers = <<>>
  /\ burst.triggers = 2
  /\ ~burst.clean

\* C24: when the query eventually stops changing and the sentinel is
\* reported visible whenever it is rendered, the controller eventually
\* settles, given that started timers fire: hasMore = false, isLoading =
\* false, every matched post visible, and from then on no reveal starts.
Settled ==
  /\ view = [searchQuery |-> searchQuery, currentPage |-> currentPage, isLoading |-> isLoading]
  /\ ~isLoading
  /\ timers = <<>>
  /\ ~(Len(displayedPosts) < Len(filteredPosts))
  /\ displayedPosts = filteredPosts

C24_EventuallySettled ==
  (<>[][searchQuery' = searchQuery]_vars) => <>[]Settled

\* The list has settled on the third page of a search, after the query
\* changed.
C24_Witness ==
  /\ Settled
  /\ ~IsBlank(searchQuery)
  /\ currentPage = 3
  /\ last.op = "render"

C26_SpinnerExcludesEndMessage ==
  /\ ~(SpinnerView.shown /\ EndMessageView.shown)
  /\ (view.isLoading /\ IsBlank(view.searchQuery)) => hasMorePosts
  /\ (isLoading /\ IsBlank(searchQuery)) =>
       currentPage * POSTS_PER_PAGE < Len(FilteredPosts(searchQuery))

\* C27: every increment of the page is applied where hasMore is true for
\* the query and page of that moment, so in every reachable state
\* (page - 1) * 4 < max(matched.length, 1).
C27_IncrementOnlyWithMore ==
  /\ []((currentPage - 1) * POSTS_PER_PAGE < Max(Len(FilteredPosts(searchQuery)), 1))
  /\ [][currentPage' > currentPage =>
          currentPage * POSTS_PER_PAGE < Len(FilteredPosts(searchQuery))]_vars

\* C28: for an empty collection and a blank or whitespace-only query the
\* controller renders no post entry, no no-results state, no sentinel or
\* counter, no end-of-list message and no loading affordance.
C28_EmptyCollectionRendersNothing ==
  (posts = <<>> /\ IsBlank(view.searchQuery)) =>
    /\ displayedPosts = <<>>
    /\ ~NoResultsView.shown
    /\ ~SentinelView.shown
    /\ ~EndMessageView.shown
    /\ ~SpinnerView.shown

\* The empty collection with a whitespace query, after the observer reported
\* the list's end visible.
C28_Witness ==
  /\ posts = <<>>
  /\ view.searchQuery = <<" ">>
  /\ last.op = "onChange"
  /\ last.inView

\* C30: after each successful copy the copied indicator of a CodeBlock stays
\* true until that copy's own timer fires: while the timer of a copy is
\* outstanding, an earlier copy's timer does not turn the indicator off.
C30_CopiedUntilOwnTimer ==
  \A i \in 1..Len(code.timers) : code.copied

====
